---------------------------- MODULE Spec2Model ----------------------------
(***************************************************************************)
(* Model of extension/obo_parser.py: the .obo stanza parser                *)
(* (parse_obo_format), the statistics pass (print_stats), the table        *)
(* emitter (write_tsv) and the driver that chains them                     *)
(* (convert_obo_to_tsv).                                                   *)
(*                                                                         *)
(* A text line is a sequence of one-character strings.  A Python object    *)
(* that is shared by reference (a record held both by the table and by     *)
(* current_record) is a cell of the sequence `records`; a reference is an  *)
(* index into it and 0 is None.                                            *)
(***************************************************************************)
EXTENDS Integers, Sequences, FiniteSets, TLC

\* Longest input, in lines, that a behaviour feeds to the parser.
MaxLines == 4

\* The largest number of calls of write_tsv on one table.
MaxEmits == 2

\* The largest number of calls of parse_obo_format by one caller.
MaxCalls == 3

-----------------------------------------------------------------------------
(* Characters and the str methods the parser uses *)

\* The characters str.strip() removes, as far as the inputs contain them.
Whitespace == {" ", "\t", "\n", "\r"}

Min(S) == CHOOSE i \in S : \A j \in S : i <= j
Max(S) == CHOOSE i \in S : \A j \in S : i >= j

\* line.startswith("[")
StartsWith(line, c) == Len(line) >= 1 /\ line[1] = c

\* str.strip(chars): drop the characters of `chars` from both ends.
StripChars(s, chars) ==
    LET keep == {i \in 1..Len(s) : s[i] \notin chars}
    IN  IF keep = {} THEN <<>> ELSE SubSeq(s, Min(keep), Max(keep))

\* str.strip()
Strip(s) == StripChars(s, Whitespace)

\* s.split(c)[0]: the text before the first c, the whole of s if it has none.
SplitFirst(s, c) ==
    LET at == {i \in 1..Len(s) : s[i] = c}
    IN  IF at = {} THEN s ELSE SubSeq(s, 1, Min(at) - 1)

\* s.replace(a, b) for one-character a and b.
Replace(s, a, b) == [i \in 1..Len(s) |-> IF s[i] = a THEN b ELSE s[i]]

\* sep.join(parts)
RECURSIVE Join(_, _)
Join(sep, parts) ==
    IF Len(parts) = 0 THEN <<>>
    ELSE IF Len(parts) = 1 THEN parts[1]
    ELSE parts[1] \o sep \o Join(sep, Tail(parts))

-----------------------------------------------------------------------------
(* Module constants of obo_parser.py *)

TAG_ID        == <<"i", "d">>
TAG_NAME      == <<"n", "a", "m", "e">>
TAG_DEF       == <<"d", "e", "f">>
TAG_COMMENT   == <<"c", "o", "m", "m", "e", "n", "t">>
TAG_IS_A      == <<"i", "s", "_", "a">>
TAG_NAMESPACE == <<"n", "a", "m", "e", "s", "p", "a", "c", "e">>
TERM      == <<"T", "e", "r", "m">>

ONLY_ONE_ALLOWED_PER_STANZA == {TAG_ID, TAG_NAME, TAG_DEF, TAG_COMMENT}

\* ReMatch with a bug: the pattern's value group is [^!]*, so that nothing
\* need follow the colon.
ReMatch_EmptyValue(line) ==
    LET colons == {i \in 1..Len(line) : line[i] = ":"}
        c      == IF colons = {} THEN 0 ELSE Min(colons)
        rest   == IF c = 0 THEN <<>> ELSE SubSeq(line, c + 1, Len(line))
    IN  IF c >= 2
        THEN [matched |-> TRUE, tag |-> SubSeq(line, 1, c - 1),
              value |-> SplitFirst(rest, "!")]
        ELSE [matched |-> FALSE, tag |-> <<>>, value |-> <<>>]

\* re.match(TAG_AND_VALUE_REGEX, line) with the pattern
\* (?P<tag>[^:]+):(?P<value>[^!]+).  The match is anchored at the start of the
\* line only.  tag is the run of non-colon characters at the start, which has
\* to be non-empty and followed by a colon; value is the longest run of
\* characters other than '!' after that colon, which has to be non-empty.
ReMatch(line) ==
    LET colons == {i \in 1..Len(line) : line[i] = ":"}
        c      == IF colons = {} THEN 0 ELSE Min(colons)
        rest   == IF c = 0 THEN <<>> ELSE SubSeq(line, c + 1, Len(line))
        value  == SplitFirst(rest, "!")
    IN  IF c >= 2 /\ Len(value) >= 1
        THEN [matched |-> TRUE, tag |-> SubSeq(line, 1, c - 1), value |-> value]
        ELSE [matched |-> FALSE, tag |-> <<>>, value |-> <<>>]

-----------------------------------------------------------------------------
(* Python values *)

\* None, as the value of current_stanza_type: no sequence of characters.
None == <<"None">>

\* None, as the value of current_record and of the driver's obo_records_dict.
NoRef == 0

\* A tag of a record maps to a str or to a list of str.
Str(s)   == [kind |-> "str", val |-> s]
List(ss) == [kind |-> "list", val |-> ss]

\* collections.defaultdict(list), just made: no key.
NewRecord == [t \in {} |-> List(<<>>)]

\* record[tag] = v
RecordSet(record, tag, v) ==
    [t \in (DOMAIN record) \cup {tag} |-> IF t = tag THEN v ELSE record[t]]

\* RecordAppend with a bug: the new value goes to the front of the list.
RecordAppend_Prepend(record, tag, value) ==
    LET old == IF tag \in DOMAIN record THEN record[tag].val ELSE <<>>
    IN  RecordSet(record, tag, List(<<value>> \o old))

\* record[tag].append(value) on a defaultdict(list): a missing key is first
\* given an empty list.
RecordAppend(record, tag, value) ==
    LET old == IF tag \in DOMAIN record THEN record[tag].val ELSE <<>>
    IN  RecordSet(record, tag, List(Append(old, value)))

\* collections.OrderedDict as the sequence of its items, in iteration order.
Keys(d) == [i \in 1..Len(d) |-> d[i].key]

HasKey(d, k) == \E i \in 1..Len(d) : d[i].key = k

GetItem(d, k) == d[CHOOSE i \in 1..Len(d) : d[i].key = k].ref

\* SetItem with a bug: a key that is assigned again moves to the end.
SetItem_MoveToEnd(d, k, ref) ==
    Append(SelectSeq(d, LAMBDA item : item.key # k), [key |-> k, ref |-> ref])

\* d[k] = ref: an existing key keeps its place, a new key goes last.
SetItem(d, k, ref) ==
    IF HasKey(d, k)
    THEN [i \in 1..Len(d) |-> IF d[i].key = k THEN [key |-> k, ref |-> ref] ELSE d[i]]
    ELSE Append(d, [key |-> k, ref |-> ref])

-----------------------------------------------------------------------------
(* parse_obo_format, one iteration of its loop *)

NoError       == "none"
MalformedLine == "ValueError: Unexpected line format"
DuplicateTag  == "ValueError: More than one tag found in stanza"
NoneTypeError == "TypeError: NoneType"

\* The locals of parse_obo_format as it enters the loop.
ParserInit ==
    [obo_records_dict    |-> <<>>,
     records             |-> <<>>,
     current_stanza_type |-> None,
     current_record      |-> NoRef,
     err                 |-> NoError]

\* line.strip("[]\n")
StanzaType(line) == StripChars(line, {"[", "]", "\n"})

\* line.strip().split("!")[0]
CleanLine(line) == SplitFirst(Strip(line), "!")

\* CleanValue with a bug: the double quotes are left as they are.
CleanValue_KeepsQuotes(value) == Strip(value)

\* CleanValue with a bug: the whitespace around the value is kept.
CleanValue_NoStrip(value) == Replace(value, "\"", "'")

\* match.group("value").strip().replace('"', "'")
CleanValue(value) == Replace(Strip(value), "\"", "'")

\* StartRecord with a bug: an id whose value is already a key takes up the
\* record stored at that key instead of making a new one.
StartRecord_ReusesExisting(p, value) ==
    IF HasKey(p.obo_records_dict, value)
    THEN [p EXCEPT !.current_record = GetItem(p.obo_records_dict, value)]
    ELSE LET ref == Len(p.records) + 1
         IN  [p EXCEPT !.records = Append(@, NewRecord),
                       !.current_record = ref,
                       !.obo_records_dict = SetItem(@, value, ref)]

\* StartRecord with a bug: the new record is put in the table only when the
\* key is new (setdefault), so an existing key keeps its old record.
StartRecord_SetDefault(p, value) ==
    LET ref == Len(p.records) + 1
    IN  [p EXCEPT !.records = Append(@, NewRecord),
                  !.current_record = ref,
                  !.obo_records_dict = IF HasKey(@, value) THEN @
                                       ELSE SetItem(@, value, ref)]

\* if tag == "id": a new record becomes the current one and the table's value
\* at the key `value`.
StartRecord(p, value) ==
    LET ref == Len(p.records) + 1
    IN  [p EXCEPT !.records = Append(@, NewRecord),
                  !.current_record = ref,
                  !.obo_records_dict = SetItem(@, value, ref)]

\* `tag in current_record`, current_record being a record.
TagInRecord(p, tag) == tag \in DOMAIN p.records[p.current_record]

\* StoreTag with a bug: a repeated single-valued tag is let through when it
\* repeats the value already stored.
StoreTag_SameValueAllowed(p, tag, value) ==
    IF p.current_record = NoRef
    THEN [p EXCEPT !.err = NoneTypeError]
    ELSE IF tag \in ONLY_ONE_ALLOWED_PER_STANZA
    THEN IF TagInRecord(p, tag) /\ p.records[p.current_record][tag] # Str(value)
         THEN [p EXCEPT !.err = DuplicateTag]
         ELSE [p EXCEPT !.records[p.current_record] = RecordSet(@, tag, Str(value))]
    ELSE [p EXCEPT !.records[p.current_record] = RecordAppend(@, tag, value)]

\* The if/else that stores the value.  With current_record still None both
\* `tag in current_record` and `current_record[tag]` raise TypeError.
StoreTag(p, tag, value) ==
    IF p.current_record = NoRef
    THEN [p EXCEPT !.err = NoneTypeError]
    ELSE IF tag \in ONLY_ONE_ALLOWED_PER_STANZA
    THEN IF TagInRecord(p, tag)
         THEN [p EXCEPT !.err = DuplicateTag]
         ELSE [p EXCEPT !.records[p.current_record] = RecordSet(@, tag, Str(value))]
    ELSE [p EXCEPT !.records[p.current_record] = RecordAppend(@, tag, value)]

\* A line of a Term stanza, from the strip/split on.
TermLine(p, line) ==
    LET text  == CleanLine(line)
        match == ReMatch(text)
        tag   == match.tag
        value == CleanValue(match.value)
    IN  IF Len(text) = 0 THEN p
        ELSE IF ~match.matched THEN [p EXCEPT !.err = MalformedLine]
        ELSE StoreTag(IF tag = TAG_ID THEN StartRecord(p, value) ELSE p, tag, value)

\* ParseLine with a bug: the stanza type is not looked at, so that lines
\* outside of a Term stanza are read as tag lines too.
ParseLine_NoStanzaCheck(p, line) ==
    IF StartsWith(line, "[")
    THEN [p EXCEPT !.current_stanza_type = StanzaType(line)]
    ELSE TermLine(p, line)

\* The body of `for line in lines`.
ParseLine(p, line) ==
    IF StartsWith(line, "[")
    THEN [p EXCEPT !.current_stanza_type = StanzaType(line)]
    ELSE IF p.current_stanza_type # TERM THEN p
    ELSE TermLine(p, line)

\* parse_obo_format over a whole input: the loop stops at the first line that
\* raises.
RECURSIVE ParseFrom(_, _)
ParseFrom(p, input) ==
    IF Len(input) = 0 \/ p.err # NoError THEN p
    ELSE ParseFrom(ParseLine(p, Head(input)), Tail(input))

ParseAll(input) == ParseFrom(ParserInit, input)

-----------------------------------------------------------------------------
(* print_stats and write_tsv *)

\* yield_all: the records of the table, in its iteration order.
yield_all(d, recs) == [i \in 1..Len(d) |-> recs[d[i].ref]]

\* The two counters print_stats fills: per tag, the number of records that
\* have it, and the number of values the records hold for it in lists.
RECURSIVE SumLen(_, _)
SumLen(rs, tag) ==
    IF Len(rs) = 0 THEN 0
    ELSE (IF tag \in DOMAIN rs[1] /\ rs[1][tag].kind = "list"
          THEN Len(rs[1][tag].val) ELSE 0) + SumLen(Tail(rs), tag)

print_stats(d, recs) ==
    LET rs       == yield_all(d, recs)
        tags     == UNION {DOMAIN rs[i] : i \in 1..Len(rs)}
        listTags == {t \in tags : \E i \in 1..Len(rs) :
                        t \in DOMAIN rs[i] /\ rs[i][t].kind = "list"}
    IN  [total_records |-> Len(d),
         tag_counter   |-> [t \in tags |->
                              Cardinality({i \in 1..Len(rs) : t \in DOMAIN rs[i]})],
         value_counter |-> [t \in listTags |-> SumLen(rs, t)]]

\* header with a bug: namespace and is_a change places.
header_Swapped == <<TAG_ID, TAG_NAME, TAG_NAMESPACE, TAG_IS_A, TAG_DEF>>

\* The columns of the table, in order.
header == <<TAG_ID, TAG_NAME, TAG_IS_A, TAG_NAMESPACE, TAG_DEF>>

\* The default of write_tsv's separator parameter.
DefaultSeparator == <<",", " ">>

\* One column of one row: record.get(tag) rendered.
Cell(record, tag, separator) ==
    IF tag \notin DOMAIN record THEN <<>>
    ELSE IF record[tag].kind = "list" THEN Join(separator, record[tag].val)
    ELSE record[tag].val

\* "\t".join(row) for the row of one record.
Row(record, separator) ==
    Join(<<"\t">>, [c \in 1..Len(header) |-> Cell(record, header[c], separator)])

\* Everything write_tsv writes to the stream: each row and then "\n".
RECURSIVE WriteRows(_, _)
WriteRows(rs, separator) ==
    IF Len(rs) = 0 THEN <<>>
    ELSE Row(rs[1], separator) \o <<"\n">> \o WriteRows(Tail(rs), separator)

write_tsv(d, recs, separator) == WriteRows(yield_all(d, recs), separator)

\* record.get(tag) with a bug: record[tag] is read instead, and a record is a
\* defaultdict(list), which stores an empty list under a tag it lacks.
AfterGet_Subscript(record, tag) ==
    IF tag \in DOMAIN record THEN record ELSE record @@ (tag :> List(<<>>))

\* The record after `value = record.get(tag)`: get looks the tag up without
\* calling the default factory, so nothing is stored.
AfterGet(record, tag) == record

\* The record after the loop `for tag in header` has read its first n columns.
RECURSIVE AfterRow(_, _)
AfterRow(record, n) ==
    IF n = 0 THEN record ELSE AfterGet(AfterRow(record, n - 1), header[n])

\* The record objects after write_tsv: those of the table have been read
\* column by column.
AfterWrite(d, recs) ==
    [r \in DOMAIN recs |->
        IF \E i \in 1..Len(d) : d[i].ref = r
        THEN AfterRow(recs[r], Len(header)) ELSE recs[r]]

-----------------------------------------------------------------------------
(* Inputs: the lines a source may hold *)

EOL == <<"\n">>

HdrTerm    == <<"[">> \o TERM \o <<"]">> \o EOL
HdrTypedef == <<"[", "T", "y", "p", "e", "d", "e", "f", "]">> \o EOL

\* A line `tag: value`, with its terminator.
TagLine(tag, value) == tag \o <<":", " ">> \o value \o EOL

\* Sources that exercise the single-valued tags.
SingleValuedLines ==
    {HdrTerm,
     TagLine(TAG_ID, <<"A">>),
     TagLine(TAG_NAME, <<"x">>), TagLine(TAG_NAME, <<"y">>),
     TagLine(TAG_DEF, <<"x">>), TagLine(TAG_COMMENT, <<"x">>)}

\* Sources that exercise several records and the repeatable tags.
RepeatableLines ==
    {HdrTerm,
     TagLine(TAG_ID, <<"A">>), TagLine(TAG_ID, <<"B">>),
     TagLine(TAG_IS_A, <<"A">>), TagLine(TAG_IS_A, <<"B">>),
     TagLine(TAG_NAMESPACE, <<"x">>)}

\* Sources that exercise the stanza type and the lines that no tag:value
\* shape fits: no colon, nothing before the colon, nothing but a comment
\* after it.
MalformedLines ==
    {HdrTerm, HdrTypedef,
     TagLine(TAG_ID, <<"A">>),
     <<"f", "b">> \o EOL,
     <<":", "x">> \o EOL,
     <<"a", ":", "!", "c">> \o EOL}

\* Sources that exercise the edges of the tag:value shape: nothing after the
\* colon, only whitespace before the comment, a second colon, a comment
\* line, a blank line.
ShapeLines ==
    {HdrTerm,
     TagLine(TAG_ID, <<"A">>),
     <<"a", ":">> \o EOL,
     <<"a", ":", " ", "!", "c">> \o EOL,
     <<"a", ":", "b", ":", "c">> \o EOL,
     <<" ", "!", "c">> \o EOL,
     EOL}

\* Sources that exercise what reaches a key or a value: an inline comment,
\* surrounding whitespace, a tab inside a value.
CommentLines ==
    {HdrTerm,
     TagLine(TAG_ID, <<"A">>),
     TagLine(TAG_ID, <<"A", " ", "!", "c">>),
     TagLine(TAG_ID, <<" ", "A", " ">>),
     TagLine(TAG_NAME, <<"a", "\t", "b">>)}

\* Sources that exercise the quote characters.
QuoteLines ==
    {HdrTerm,
     TagLine(TAG_ID, <<"\"", "A", "\"">>),
     TagLine(TAG_ID, <<"'", "A", "'">>),
     TagLine(TAG_IS_A, <<"\"", "B", "\"", " ", "!", " ", "c">>)}

\* Sources that exercise the line terminators and the text around a header:
\* none, "\n", "\r\n", a space before the "\n".
CRLF == <<"\r", "\n">>

HeaderLines ==
    {<<"[">> \o TERM \o <<"]">>,
     HdrTerm,
     <<"[">> \o TERM \o <<"]">> \o CRLF,
     <<"[">> \o TERM \o <<"]", " ">> \o EOL,
     TAG_ID \o <<":", " ", "A">> \o CRLF,
     TagLine(TAG_NAME, <<"x">>)}

\* The stanza of the format's documentation that the parser is meant to read.
ExampleId ==
    <<"i", "d", ":", " ", "G", "O", ":", "0", "0", "0", "0", "0", "0", "1">> \o EOL
ExampleName ==
    <<"n", "a", "m", "e", ":", " ", "m", "i", "t", "o", "c", "h", "o", "n",
      "d", "r", "i", "o", "n", " ", "i", "n", "h", "e", "r", "i", "t", "a",
      "n", "c", "e">> \o EOL
ExampleNamespace ==
    <<"n", "a", "m", "e", "s", "p", "a", "c", "e", ":", " ", "b", "i", "o",
      "l", "o", "g", "i", "c", "a", "l", "_", "p", "r", "o", "c", "e", "s",
      "s">> \o EOL
ExampleIsA1 ==
    <<"i", "s", "_", "a", ":", " ", "G", "O", ":", "0", "0", "4", "8", "3",
      "0", "8", " ", "!", " ", "o", "r", "g", "a", "n", "e", "l", "l", "e",
      " ", "i", "n", "h", "e", "r", "i", "t", "a", "n", "c", "e">> \o EOL
ExampleIsA2 ==
    <<"i", "s", "_", "a", ":", " ", "G", "O", ":", "0", "0", "4", "8", "3",
      "1", "1", " ", "!", " ", "m", "i", "t", "o", "c", "h", "o", "n", "d",
      "r", "i", "o", "n", " ", "d", "i", "s", "t", "r", "i", "b", "u", "t",
      "i", "o", "n">> \o EOL

ExampleFile ==
    <<HdrTerm, ExampleId, ExampleName, ExampleNamespace,
      ExampleIsA1, ExampleIsA2>>

\* A source is a vocabulary, of which the input is any sequence of at most
\* MaxLines lines, or a file, of which the input is the lines in order.
Vocabulary(ls) == [kind |-> "vocabulary", lines |-> ls]
File(ls)       == [kind |-> "file", lines |-> ls]

Sources ==
    {Vocabulary(SingleValuedLines), Vocabulary(RepeatableLines),
     Vocabulary(MalformedLines), Vocabulary(ShapeLines),
     Vocabulary(CommentLines), Vocabulary(QuoteLines),
     Vocabulary(HeaderLines),
     File(ExampleFile)}

\* The lines the source can yield next, `read` being those it has yielded.
NextLines(src, read) ==
    IF src.kind = "file"
    THEN IF Len(read) < Len(src.lines) THEN {src.lines[Len(read) + 1]} ELSE {}
    ELSE IF Len(read) < MaxLines THEN src.lines ELSE {}

\* Whether the source can be exhausted after `read`.
Exhausted(src, read) == src.kind = "file" => Len(read) = Len(src.lines)

-----------------------------------------------------------------------------
(* convert_obo_to_tsv as a state machine *)

VARIABLES
    source,               \* what this run reads: a member of Sources
    lines,                \* the lines the parser has read so far
    obo_records_dict,     \* the table: items <<key, reference to a record>>
    records,              \* the record objects made so far
    current_stanza_type,
    current_record,       \* reference to a record, or NoRef
    err,                  \* the exception raised, or NoError
    pc,                   \* where convert_obo_to_tsv is
    stats,                \* what print_stats computed, if it did
    output_opened,        \* whether open(output_path, "w") was called
    output_stream,        \* the text written to the destination
    emitted,              \* what each call of write_tsv wrote, in call order
    earlier               \* the calls of parse_obo_format that ended before
                          \* the one in progress

parser == <<obo_records_dict, records, current_stanza_type, current_record, err>>
driver == <<stats, output_opened, output_stream, emitted>>
vars   == <<source, lines, parser, pc, driver, earlier>>

\* The parser's locals as one value.
Locals ==
    [obo_records_dict    |-> obo_records_dict,
     records             |-> records,
     current_stanza_type |-> current_stanza_type,
     current_record      |-> current_record,
     err                 |-> err]

\* The state in which convert_obo_to_tsv is entered, reading one of `srcs`.
Start(srcs) ==
    /\ source \in srcs
    /\ lines = <<>>
    /\ obo_records_dict = ParserInit.obo_records_dict
    /\ records = ParserInit.records
    /\ current_stanza_type = ParserInit.current_stanza_type
    /\ current_record = ParserInit.current_record
    /\ err = ParserInit.err
    /\ pc = "parse"
    /\ stats = <<>>
    /\ output_opened = FALSE
    /\ output_stream = <<>>
    /\ emitted = <<>>
    /\ earlier = <<>>

Init == Start(Sources)

\* The loop of parse_obo_format takes the next line of the source.  A raise
\* leaves parse_obo_format and convert_obo_to_tsv at once.
ReadLine ==
    /\ pc = "parse"
    /\ \E line \in NextLines(source, lines) :
         LET q == ParseLine(Locals, line)
         IN  /\ lines' = Append(lines, line)
             /\ obo_records_dict' = q.obo_records_dict
             /\ records' = q.records
             /\ current_stanza_type' = q.current_stanza_type
             /\ current_record' = q.current_record
             /\ err' = q.err
             /\ pc' = IF q.err = NoError THEN "parse" ELSE "raised"
    /\ UNCHANGED <<source, driver, earlier>>

\* EndOfInput with a bug: the table is returned after a raise as well, as if
\* the error were caught and what was parsed so far were kept.
EndOfInput_AfterRaise ==
    /\ pc = "parse" \/ pc = "raised"
    /\ Exhausted(source, lines)
    /\ pc' = "print_stats"
    /\ UNCHANGED <<source, lines, parser, driver, earlier>>

\* The source is exhausted: parse_obo_format returns obo_records_dict.
EndOfInput ==
    /\ pc = "parse"
    /\ Exhausted(source, lines)
    /\ pc' = "print_stats"
    /\ UNCHANGED <<source, lines, parser, driver, earlier>>

\* print_stats(obo_records_dict, input_path): nothing unless the logger is
\* enabled for INFO.
PrintStats ==
    /\ pc = "print_stats"
    /\ \E enabled \in BOOLEAN :
         stats' = IF enabled THEN <<print_stats(obo_records_dict, records)>> ELSE <<>>
    /\ pc' = "write_tsv"
    /\ UNCHANGED <<source, lines, parser, output_opened, output_stream, emitted, earlier>>

\* write_tsv to sys.stdout, or to the file opened at output_path.
WriteTsv ==
    /\ pc = "write_tsv"
    /\ Len(emitted) < MaxEmits
    /\ \E to_file \in BOOLEAN : output_opened' = to_file
    /\ output_stream' = write_tsv(obo_records_dict, records, DefaultSeparator)
    /\ emitted' = Append(emitted, output_stream')
    /\ records' = AfterWrite(obo_records_dict, records)
    /\ pc' = "done"
    /\ UNCHANGED <<source, lines, obo_records_dict, current_stanza_type,
                   current_record, err, stats, earlier>>

Next == ReadLine \/ EndOfInput \/ PrintStats \/ WriteTsv

Spec == Init /\ [][Next]_vars

-----------------------------------------------------------------------------
(* A caller that keeps the returned table and reads it again *)

ReadSources == {Vocabulary(RepeatableLines), File(ExampleFile)}

InitRead == Start(ReadSources)

\* The caller holds the table parse_obo_format returned and chooses which of
\* print_stats and write_tsv to call on it next.
CallReader ==
    /\ pc \in {"print_stats", "write_tsv", "done"}
    /\ \E fn \in {"print_stats", "write_tsv"} : fn # pc /\ pc' = fn
    /\ UNCHANGED <<source, lines, parser, driver, earlier>>

NextRead == ReadLine \/ EndOfInput \/ PrintStats \/ WriteTsv \/ CallReader

SpecRead == InitRead /\ [][NextRead]_vars

-----------------------------------------------------------------------------
(* A caller that calls parse_obo_format several times *)

\* The inputs of the calls: a stanza, a tag line outside any stanza, a stanza
\* that repeats a single-valued tag, a second stanza, an id line alone and a
\* Term header followed by a tag line.
CallFiles ==
    {<<HdrTerm, TagLine(TAG_ID, <<"A">>), TagLine(TAG_NAME, <<"x">>)>>,
     <<TagLine(TAG_NAME, <<"y">>)>>,
     <<HdrTerm, TagLine(TAG_ID, <<"A">>), TagLine(TAG_NAME, <<"x">>),
       TagLine(TAG_NAME, <<"y">>)>>,
     <<HdrTerm, TagLine(TAG_ID, <<"B">>), TagLine(TAG_IS_A, <<"A">>)>>,
     <<TagLine(TAG_ID, <<"A">>)>>,
     <<HdrTerm, TagLine(TAG_IS_A, <<"A">>)>>}

CallSources == {File(ls) : ls \in CallFiles}

InitCalls == Start(CallSources)

\* What the caller keeps of a call that has ended: its input, and the table
\* it returned or the error it raised.
EndedCall ==
    [lines |-> lines, obo_records_dict |-> obo_records_dict, err |-> err]

\* CallAgain with a bug: current_stanza_type and current_record live on from
\* one call to the next, as module-level variables would.
CallAgain_KeepsLocals ==
    /\ pc \in {"raised", "print_stats"}
    /\ Len(earlier) + 1 < MaxCalls
    /\ earlier' = Append(earlier, EndedCall)
    /\ source' \in CallSources
    /\ lines' = <<>>
    /\ obo_records_dict' = ParserInit.obo_records_dict
    /\ err' = ParserInit.err
    /\ pc' = "parse"
    /\ UNCHANGED <<records, current_stanza_type, current_record, driver>>

\* parse_obo_format is called again after a call has returned or raised: the
\* new call starts from its own fresh locals; the record objects of the
\* earlier tables stay where they are.
CallAgain ==
    /\ pc \in {"raised", "print_stats"}
    /\ Len(earlier) + 1 < MaxCalls
    /\ earlier' = Append(earlier, EndedCall)
    /\ source' \in CallSources
    /\ lines' = <<>>
    /\ obo_records_dict' = ParserInit.obo_records_dict
    /\ current_stanza_type' = ParserInit.current_stanza_type
    /\ current_record' = ParserInit.current_record
    /\ err' = ParserInit.err
    /\ pc' = "parse"
    /\ UNCHANGED <<records, driver>>

NextCalls == ReadLine \/ EndOfInput \/ CallAgain

SpecCalls == InitCalls /\ [][NextCalls]_vars

-----------------------------------------------------------------------------
(* Reading the input back: what the lines read so far say, for the properties *)

\* A header line: its first character is '['.
IsHeader(line) == StartsWith(line, "[")

\* Whether the stanza type is Term when line j of `read` is processed: the
\* last header before it names Term.
InTermAt(read, j) ==
    LET hs == {i \in 1..(j - 1) : IsHeader(read[i])}
    IN  hs # {} /\ StanzaType(read[Max(hs)]) = TERM

\* Line j of `read` is a line of a Term stanza that is not a header and is not
\* empty after trimming and truncation at the first '!'.
TermLineAt(read, j) ==
    /\ ~IsHeader(read[j])
    /\ InTermAt(read, j)
    /\ Len(CleanLine(read[j])) > 0

FirstIndex(text, c) ==
    LET at == {i \in 1..Len(text) : text[i] = c}
    IN  IF at = {} THEN 0 ELSE Min(at)

\* The tag a line names: its text, trimmed, before its first colon.
TagOf(line) ==
    LET text == CleanLine(line)
        c    == FirstIndex(text, ":")
    IN  IF c = 0 THEN <<>> ELSE SubSeq(text, 1, c - 1)

\* tag:value, tag being one or more characters before the first colon and
\* value one or more characters after it.
HasShape(text) ==
    LET c == FirstIndex(text, ":")
    IN  c >= 2 /\ c < Len(text)

IdLineAt(read, j) == TermLineAt(read, j) /\ TagOf(read[j]) = TAG_ID

\* The text between the first colon of a line and its first '!' (or its end),
\* without surrounding whitespace and with ' for every ".
ExpectedValue(line) ==
    LET c    == FirstIndex(line, ":")
        b    == FirstIndex(line, "!")
        last == IF b = 0 THEN Len(line) ELSE b - 1
    IN  Replace(Strip(SubSeq(line, c + 1, last)), "\"", "'")

\* The increasing sequence of the members of a set of numbers.
RECURSIVE Sorted(_)
Sorted(S) == IF S = {} THEN <<>> ELSE <<Min(S)>> \o Sorted(S \ {Min(S)})

\* A step of the parser's loop, and the line it reads.
Reading == pc = "parse" /\ lines' # lines
NewLine == lines'[Len(lines')]

\* The table has been returned to convert_obo_to_tsv.
Returned == pc \in {"print_stats", "write_tsv", "done"}

\* The record in the table at position i.
RecordAt(i) == records[obo_records_dict[i].ref]

-----------------------------------------------------------------------------
(* C1 *)

\* The current record has had a line with this tag since its id line.
AlreadyGiven(tag) ==
    LET ids == {i \in 1..Len(lines) : IdLineAt(lines, i)}
    IN  /\ ids # {}
        /\ \E j \in (Max(ids) + 1)..Len(lines) :
              TermLineAt(lines, j) /\ TagOf(lines[j]) = tag

SecondSingleValued ==
    /\ Reading
    /\ current_stanza_type = TERM
    /\ current_record # NoRef
    /\ ~IsHeader(NewLine)
    /\ TagOf(NewLine) \in {TAG_NAME, TAG_DEF, TAG_COMMENT}
    /\ AlreadyGiven(TagOf(NewLine))

\* C1: in a Term stanza with a current record, a second name, def or comment
\* line for that record (no id line in between) raises the duplicate-tag
\* error whatever the two values are; the table and every record are left as
\* they were, and after the raise nothing is returned.
C1_DuplicateAborts ==
    [][/\ SecondSingleValued =>
            /\ err' = DuplicateTag
            /\ pc' = "raised"
            /\ records' = records
            /\ obo_records_dict' = obo_records_dict
       /\ pc = "raised" => pc' = "raised"]_vars

\* A second name line with the value of the first has aborted the parse.
C1_Witness ==
    /\ pc = "raised"
    /\ err = DuplicateTag
    /\ lines = <<HdrTerm, TagLine(TAG_ID, <<"A">>),
                 TagLine(TAG_NAME, <<"x">>), TagLine(TAG_NAME, <<"x">>)>>
    /\ RecordAt(1)[TAG_NAME] = Str(<<"x">>)

-----------------------------------------------------------------------------
(* C2 *)

\* C2: for a line of a Term stanza that is not a header and is not empty
\* after trimming and truncation at the first '!', the malformed-line error
\* is raised exactly when what is left of the line does not have the shape
\* tag:value.
C2_MalformedIffNoShape ==
    [][(/\ Reading
        /\ current_stanza_type = TERM
        /\ ~IsHeader(NewLine)
        /\ Len(CleanLine(NewLine)) > 0)
       => (err' = MalformedLine <=> ~HasShape(CleanLine(NewLine)))]_vars

\* A line that ends right after its first colon, once its comment is cut,
\* has raised the malformed-line error.
C2_Witness ==
    /\ pc = "raised"
    /\ err = MalformedLine
    /\ Len(lines) >= 2
    /\ InTermAt(lines, Len(lines))
    /\ lines[Len(lines)] = <<"a", ":", "!", "c">> \o EOL

-----------------------------------------------------------------------------
(* C3 *)

\* The input without the non-header lines read while the stanza type is not
\* Term.
RECURSIVE KeptFrom(_, _)
KeptFrom(read, in_term) ==
    IF Len(read) = 0 THEN <<>>
    ELSE IF IsHeader(Head(read))
    THEN <<Head(read)>> \o KeptFrom(Tail(read), StanzaType(Head(read)) = TERM)
    ELSE IF in_term THEN <<Head(read)>> \o KeptFrom(Tail(read), in_term)
    ELSE KeptFrom(Tail(read), in_term)

Kept(read) == KeptFrom(read, FALSE)

\* C3: while the stanza type is not Term, a non-header line changes neither
\* the table nor any record and raises nothing; the parser ends as it does on
\* the input with all such lines removed.
C3_OutsideTermIgnored ==
    /\ [](Locals = ParseAll(Kept(lines)))
    /\ [][(Reading /\ current_stanza_type # TERM /\ ~IsHeader(NewLine))
          => (UNCHANGED parser /\ pc' = "parse")]_vars

\* A table was returned for an input that repeats a name line before the
\* first header and reads its id line in a Term stanza.
C3_Witness ==
    /\ Returned
    /\ Len(obo_records_dict) = 1
    /\ lines = <<TagLine(TAG_NAME, <<"x">>), TagLine(TAG_NAME, <<"x">>),
                 HdrTerm, TagLine(TAG_ID, <<"A">>)>>

-----------------------------------------------------------------------------
(* C4 *)

\* The id lines read in a Term stanza, by index, and those that give key k.
IdLines == {j \in 1..Len(lines) : IdLineAt(lines, j)}
IdLinesOf(k) == {j \in IdLines : ExpectedValue(lines[j]) = k}

\* The lines that follow id line s up to the next id line and are read in a
\* Term stanza.
LinesAfterId(s) ==
    {j \in (s + 1)..Len(lines) :
        /\ TermLineAt(lines, j)
        /\ \A n \in IdLines : ~(s < n /\ n <= j)}

\* The values that the lines of tag t give to the record last started for
\* key k, in the order the lines were read.
ValuesRead(k, t) ==
    LET at == Sorted({j \in LinesAfterId(Max(IdLinesOf(k))) : TagOf(lines[j]) = t})
    IN  [n \in 1..Len(at) |-> ExpectedValue(lines[at[n]])]

\* C4: in a returned table each of id, name, def, comment that a record has
\* maps to a single string, and every other tag it has maps to a non-empty
\* sequence holding the tag's values in the order their lines were read.
C4_ValueKinds ==
    Returned =>
        \A i \in 1..Len(obo_records_dict) :
            \A t \in DOMAIN RecordAt(i) :
                IF t \in {TAG_ID, TAG_NAME, TAG_DEF, TAG_COMMENT}
                THEN RecordAt(i)[t].kind = "str"
                ELSE /\ RecordAt(i)[t].kind = "list"
                     /\ Len(RecordAt(i)[t].val) >= 1
                     /\ RecordAt(i)[t].val = ValuesRead(obo_records_dict[i].key, t)

\* A returned record holds a string for id and name and the two values of
\* is_a in the order read.
C4_Witness ==
    /\ Returned
    /\ lines = <<HdrTerm, TagLine(TAG_ID, <<"A">>),
                 TagLine(TAG_IS_A, <<"B">>), TagLine(TAG_IS_A, <<"A">>)>>
    /\ RecordAt(1)[TAG_ID] = Str(<<"A">>)
    /\ RecordAt(1)[TAG_IS_A] = List(<<(<<"B">>), (<<"A">>)>>)

-----------------------------------------------------------------------------
(* C5 *)

\* C5 as stated: the number of keys of a returned table is the number of
\* distinct id lines read in a Term stanza.
C5_KeysCountDistinctIdLines ==
    Returned => Len(obo_records_dict) = Cardinality({lines[j] : j \in IdLines})

\* C5, amended: the keys of a returned table are distinct, and their number
\* is the number of distinct id values read in a Term stanza, the value of an
\* id line being its text between the first colon and the first '!', trimmed,
\* with ' for ".
C5_KeysCountDistinctIdValues ==
    Returned =>
        /\ Len(obo_records_dict) =
              Cardinality({ExpectedValue(lines[j]) : j \in IdLines})
        /\ \A i, j \in 1..Len(obo_records_dict) :
              obo_records_dict[i].key = obo_records_dict[j].key => i = j

\* Three id lines that differ in a trailing comment and in the surrounding
\* whitespace have given one key.
C5_Witness ==
    /\ Returned
    /\ lines = <<HdrTerm, TagLine(TAG_ID, <<"A">>),
                 TagLine(TAG_ID, <<"A", " ", "!", "c">>),
                 TagLine(TAG_ID, <<" ", "A", " ">>)>>
    /\ Keys(obo_records_dict) = <<(<<"A">>)>>

-----------------------------------------------------------------------------
(* C6 *)

\* What a tag line that is accepted has to leave behind: for id, a fresh
\* record under the key; for another tag, the current record with the value
\* assigned (single-valued tags) or appended, and nothing else touched.
StoredAsExpected(line) ==
    LET t == TagOf(line)
        v == ExpectedValue(line)
    IN  IF t = TAG_ID
        THEN /\ current_record' = Len(records) + 1
             /\ records' = Append(records, TAG_ID :> Str(v))
             /\ HasKey(obo_records_dict', v)
             /\ GetItem(obo_records_dict', v) = current_record'
        ELSE /\ current_record' = current_record
             /\ obo_records_dict' = obo_records_dict
             /\ DOMAIN records' = DOMAIN records
             /\ \A n \in DOMAIN records : n # current_record => records'[n] = records[n]
             /\ LET old == records[current_record]
                    new == records'[current_record]
                IN  /\ DOMAIN new = DOMAIN old \cup {t}
                    /\ \A u \in DOMAIN old : u # t => new[u] = old[u]
                    /\ new[t] = IF t \in {TAG_NAME, TAG_DEF, TAG_COMMENT}
                                THEN Str(v)
                                ELSE List(Append(IF t \in DOMAIN old
                                                 THEN old[t].val ELSE <<>>, v))

GO_0000001 ==
    <<"G", "O", ":", "0", "0", "0", "0", "0", "0", "1">>
GO_0048308 ==
    <<"G", "O", ":", "0", "0", "4", "8", "3", "0", "8">>
GO_0048311 ==
    <<"G", "O", ":", "0", "0", "4", "8", "3", "1", "1">>
ExampleRow ==
    GO_0000001 \o <<"\t">> \o SubSeq(ExampleName, 7, 31) \o <<"\t">>
    \o GO_0048308 \o <<",", " ">> \o GO_0048311 \o <<"\t">>
    \o SubSeq(ExampleNamespace, 12, 29) \o <<"\t">> \o EOL

\* The documentation's stanza gives one record, with two is_a values and no
\* comment text, and one row.
ExampleParsed ==
    (source = File(ExampleFile) /\ pc = "done") =>
        /\ Keys(obo_records_dict) = <<GO_0000001>>
        /\ RecordAt(1) =
              (TAG_ID :> Str(GO_0000001)
               @@ TAG_NAME :> Str(SubSeq(ExampleName, 7, 31))
               @@ TAG_NAMESPACE :> List(<<SubSeq(ExampleNamespace, 12, 29)>>)
               @@ TAG_IS_A :> List(<<GO_0048308, GO_0048311>>))
        /\ output_stream = ExampleRow

\* C6: the value an accepted tag line stores, or the key it makes, is the
\* text between the line's first colon and its first '!' (or its end), with
\* the surrounding whitespace removed and ' for every "; nothing after the
\* '!' reaches a record.  The documentation's stanza gives is_a =
\* [GO:0048308, GO:0048311].
C6_StoredValue ==
    /\ [](ExampleParsed)
    /\ [][(/\ Reading
           /\ current_stanza_type = TERM
           /\ ~IsHeader(NewLine)
           /\ Len(CleanLine(NewLine)) > 0
           /\ err' = NoError)
          => StoredAsExpected(NewLine)]_vars

\* A quoted id and a quoted is_a value with a comment were stored with single
\* quotes and without the comment.
C6_Witness ==
    /\ pc = "parse"
    /\ lines = <<HdrTerm, TagLine(TAG_ID, <<"\"", "A", "\"">>),
                 TagLine(TAG_IS_A, <<"\"", "B", "\"", " ", "!", " ", "c">>)>>
    /\ Keys(obo_records_dict) = <<(<<"'", "A", "'">>)>>
    /\ RecordAt(1)[TAG_IS_A] = List(<<(<<"'", "B", "'">>)>>)

\* The documentation's stanza has been read and written.
C6_ExampleDone == source = File(ExampleFile) /\ pc = "done"

-----------------------------------------------------------------------------
(* C7 *)

\* The index of the first id line that gives key k.
FirstIdLine(k) == Min(IdLinesOf(k))

\* C7: the table iterates its keys in the order of the first id line of each,
\* also for a key that a later id line gives again.
C7_FirstAppearanceOrder ==
    Returned =>
        \A i, j \in 1..Len(obo_records_dict) :
            (i < j) <=> (FirstIdLine(obo_records_dict[i].key)
                           < FirstIdLine(obo_records_dict[j].key))

\* Key A, given again after key B, still comes first.
C7_Witness ==
    /\ Returned
    /\ lines = <<HdrTerm, TagLine(TAG_ID, <<"A">>),
                 TagLine(TAG_ID, <<"B">>), TagLine(TAG_ID, <<"A">>)>>
    /\ Keys(obo_records_dict) = <<(<<"A">>), (<<"B">>)>>

-----------------------------------------------------------------------------
(* C8 *)

\* s.split(c): the pieces of s between the occurrences of c.
RECURSIVE Split(_, _)
Split(s, c) ==
    LET i == FirstIndex(s, c)
    IN  IF i = 0 THEN <<s>>
        ELSE <<SubSeq(s, 1, i - 1)>> \o Split(SubSeq(s, i + 1, Len(s)), c)

\* The lines of the text written: what ends with each "\n".
OutputLines ==
    LET parts == Split(output_stream, "\n")
    IN  SubSeq(parts, 1, Len(parts) - 1)

\* The five columns, and what a column of a record is to show: nothing for a
\* tag the record lacks, the values joined by ", " for a sequence, the string
\* for a string.
Columns == <<TAG_ID, TAG_NAME, TAG_IS_A, TAG_NAMESPACE, TAG_DEF>>

Render(record, tag) ==
    IF tag \notin DOMAIN record THEN <<>>
    ELSE IF record[tag].kind = "list" THEN Join(<<",", " ">>, record[tag].val)
    ELSE record[tag].val

\* C8: one line is written per record, and splitting a written line on the
\* tab gives back its 5 fields, id, name, is_a, namespace, def, whatever the
\* values hold.
C8_FiveFieldsPerLine ==
    pc = "done" =>
        /\ Len(OutputLines) = Len(obo_records_dict)
        /\ \A n \in 1..Len(OutputLines) :
              Split(OutputLines[n], "\t")
                 = [c \in 1..5 |-> Render(RecordAt(n), Columns[c])]

-----------------------------------------------------------------------------
(* C9 *)

\* The text of the rows of records i, i+1, ... of the table.
RECURSIVE ExpectedRows(_)
ExpectedRows(i) ==
    IF i > Len(obo_records_dict) THEN <<>>
    ELSE Render(RecordAt(i), TAG_ID) \o <<"\t">>
         \o Render(RecordAt(i), TAG_NAME) \o <<"\t">>
         \o Render(RecordAt(i), TAG_IS_A) \o <<"\t">>
         \o Render(RecordAt(i), TAG_NAMESPACE) \o <<"\t">>
         \o Render(RecordAt(i), TAG_DEF) \o <<"\n">>
         \o ExpectedRows(i + 1)

\* C9: write_tsv writes the records in the table's order, and of each the
\* columns id, name, is_a, namespace, def in this order and nothing else:
\* empty for an absent tag, the values joined by the separator for a
\* sequence, the string for a string.
C9_RowsRendered == pc = "done" => output_stream = ExpectedRows(1)

\* A record with a comment, which no column shows, and a def was written;
\* its absent name, is_a and namespace are empty fields.
C9_Witness ==
    /\ pc = "done"
    /\ Len(obo_records_dict) = 1
    /\ DOMAIN RecordAt(1) = {TAG_ID, TAG_COMMENT, TAG_DEF}
    /\ output_stream = <<"A", "\t", "\t", "\t", "\t", "x", "\n">>

\* A record with two is_a values was written with the values joined.
C9_WitnessJoined ==
    /\ pc = "done"
    /\ output_stream = <<"B", "\t", "\t", "A", ",", " ", "B", "\t", "\t", "\n">>

-----------------------------------------------------------------------------
(* C10 *)

\* C10: a raise in parse_obo_format ends convert_obo_to_tsv: no table is
\* returned, no statistics are computed, the destination is not opened and no
\* row is written, whatever was parsed before the line that raised; the
\* statistics and the rows come only after the whole input was read without
\* an error.
C10_NoPartialResult ==
    /\ [](err # NoError =>
             /\ pc = "raised"
             /\ stats = <<>>
             /\ ~output_opened
             /\ output_stream = <<>>)
    /\ [](Returned => (err = NoError /\ Exhausted(source, lines)))
    /\ [][/\ pc # "raised"
          /\ driver' # driver => (Returned /\ err = NoError)]_vars

\* The parse was aborted by a malformed line after a record had been made.
C10_Witness ==
    /\ pc = "raised"
    /\ err = MalformedLine
    /\ Len(obo_records_dict) = 1
    /\ stats = <<>>
    /\ output_stream = <<>>

-----------------------------------------------------------------------------
(* C11 *)

\* The length of the terminator a line ends with: "\r\n", "\n" or none.
TerminatorLen(line) ==
    IF Len(line) >= 2 /\ SubSeq(line, Len(line) - 1, Len(line)) = <<"\r", "\n">>
    THEN 2
    ELSE IF Len(line) >= 1 /\ line[Len(line)] = "\n" THEN 1
    ELSE 0

\* A line, and an input, without the terminators.
Bare(line) == SubSeq(line, 1, Len(line) - TerminatorLen(line))
BareAll(read) == [i \in 1..Len(read) |-> Bare(read[i])]

\* What a parse has come to: the keys in order, their records, the error.
Outcome(p) ==
    [keys    |-> Keys(p.obo_records_dict),
     records |-> yield_all(p.obo_records_dict, p.records),
     err     |-> p.err]

\* C11: an input of which every line ends with a terminator, "\n" or "\r\n",
\* parses to what the same lines without their terminators parse to: the
\* same table or the same error.
C11_TerminatorsTolerated ==
    (\A i \in 1..Len(lines) : TerminatorLen(lines[i]) > 0)
        => Outcome(Locals) = Outcome(ParseAll(BareAll(lines)))

\* C11 for "\n" alone, which the parser does tolerate.
C11_NewlineTolerated ==
    (\A i \in 1..Len(lines) : TerminatorLen(lines[i]) = 1)
        => Outcome(Locals) = Outcome(ParseAll(BareAll(lines)))

-----------------------------------------------------------------------------
(* C12 *)

\* Lines i and j of the input belong to one stanza: no header from i to j.
SameStanza(i, j) == \A n \in i..j : ~IsHeader(lines[n])

\* C12: a second line of a Term stanza with the same single-valued tag, id,
\* name, def or comment, is fatal: once it has been read the parse has
\* raised the duplicate-tag error.
C12_SecondOccurrenceFatal ==
    \A i, j \in 1..Len(lines) :
        (/\ i < j
         /\ TermLineAt(lines, i)
         /\ TermLineAt(lines, j)
         /\ SameStanza(i, j)
         /\ TagOf(lines[i]) \in ONLY_ONE_ALLOWED_PER_STANZA
         /\ TagOf(lines[j]) = TagOf(lines[i]))
        => err = DuplicateTag

-----------------------------------------------------------------------------
(* C13 *)

\* What an ended call has come to, as its caller sees it now.
CallOutcome(c) ==
    [keys    |-> Keys(c.obo_records_dict),
     records |-> yield_all(c.obo_records_dict, records),
     err     |-> c.err]

\* The call in progress has returned or raised.
Ended == pc \in {"raised", "print_stats"}

\* C13: whatever calls came before and come after, a call of
\* parse_obo_format comes to what a lone parse of its input comes to, the keys
\* in order, the records and the error; so two calls on the same lines
\* come to the same, and a later call changes nothing an earlier call returned.
C13_CallsIndependent ==
    /\ \A c \in DOMAIN earlier :
          CallOutcome(earlier[c]) = Outcome(ParseAll(earlier[c].lines))
    /\ Outcome(Locals) = Outcome(ParseAll(lines))
    /\ \A c, d \in DOMAIN earlier :
          earlier[c].lines = earlier[d].lines =>
              CallOutcome(earlier[c]) = CallOutcome(earlier[d])
    /\ Ended =>
          \A c \in DOMAIN earlier :
              earlier[c].lines = lines =>
                  /\ CallOutcome(earlier[c]) = Outcome(Locals)
                  /\ \A i \in 1..Len(obo_records_dict) :
                        obo_records_dict[i].ref # earlier[c].obo_records_dict[i].ref

\* The same stanza has been parsed twice with another parse in between: the
\* two tables hold the same key and record in two distinct objects.
C13_Witness ==
    /\ pc = "print_stats"
    /\ Len(earlier) = 2
    /\ lines = <<HdrTerm, TagLine(TAG_ID, <<"A">>), TagLine(TAG_NAME, <<"x">>)>>
    /\ earlier[1].lines = lines
    /\ earlier[2].lines = <<HdrTerm, TagLine(TAG_ID, <<"B">>), TagLine(TAG_IS_A, <<"A">>)>>
    /\ Keys(obo_records_dict) = <<(<<"A">>)>>
    /\ obo_records_dict[1].ref = 3
    /\ earlier[1].obo_records_dict[1].ref = 1
    /\ records[3] = records[1]

-----------------------------------------------------------------------------
(* C14 *)

\* The stanza type a header line names: its text without the surrounding
\* whitespace and newline and without the enclosing brackets.
HeaderName(line) ==
    LET text  == Strip(line)
        first == IF StartsWith(text, "[") THEN 2 ELSE 1
        last  == IF Len(text) >= 1 /\ text[Len(text)] = "]"
                 THEN Len(text) - 1 ELSE Len(text)
    IN  Strip(SubSeq(text, first, last))

\* C14: after a line whose first character is '[' the stanza type is Term
\* exactly when the header names Term, whatever whitespace or terminator
\* surrounds it; the header line makes no record and changes none.
C14_HeaderSetsState ==
    [][(Reading /\ IsHeader(NewLine)) =>
          /\ (current_stanza_type' = TERM) <=> (HeaderName(NewLine) = TERM)
          /\ records' = records
          /\ obo_records_dict' = obo_records_dict
          /\ current_record' = current_record
          /\ err' = NoError]_vars

\* C14 without its first part: a header line makes no record, changes none
\* and raises nothing.
C14_HeaderChangesNoRecord ==
    [][(Reading /\ IsHeader(NewLine)) =>
          /\ records' = records
          /\ obo_records_dict' = obo_records_dict
          /\ current_record' = current_record
          /\ err' = NoError]_vars

-----------------------------------------------------------------------------
(* C15 *)

\* No header line has been read since line s.
NoHeaderSince(s) == \A n \in (s + 1)..Len(lines) : ~IsHeader(lines[n])

\* C15: a line changes an existing record only if that record is the one made
\* by the last id line and no header line has been read since that id line; a
\* record whose stanza has ended never changes.
C15_PopulatedWithinStanza ==
    [][Reading =>
          \A r \in 1..Len(records) :
              records'[r] # records[r] =>
                  /\ IdLines # {}
                  /\ r = Len(records)
                  /\ NoHeaderSince(Max(IdLines))]_vars

\* C15 without the stanza boundary: a line changes an existing record only if
\* that record is the one made by the last id line.
C15_OnlyLastRecordChanges ==
    [][Reading =>
          \A r \in 1..Len(records) :
              records'[r] # records[r] =>
                  /\ IdLines # {}
                  /\ r = Len(records)
                  /\ r = current_record]_vars

-----------------------------------------------------------------------------
(* C16 *)

\* C16: parse_obo_format returns a table or fails with the malformed-line
\* error or with the duplicate-tag error; it fails in no other way.
C16_ThreeOutcomes ==
    /\ err \in {NoError, MalformedLine, DuplicateTag}
    /\ Returned => err = NoError

\* The failure outside the three outcomes happens only where a tag line other
\* than an id line is read in a Term stanza before any id line.
C16_OtherFailureOnlyWithoutRecord ==
    err \notin {NoError, MalformedLine, DuplicateTag} =>
        /\ err = NoneTypeError
        /\ IdLines = {}
        /\ TermLineAt(lines, Len(lines))
        /\ HasShape(CleanLine(lines[Len(lines)]))

-----------------------------------------------------------------------------
(* C17 *)

\* The tags of the lines that follow the last id line of key k.
TagsRead(k) == {TagOf(lines[j]) : j \in LinesAfterId(Max(IdLinesOf(k)))}

\* An id line whose value is already a key of the table is being read.
RereadsKey ==
    /\ Reading
    /\ IdLineAt(lines', Len(lines'))
    /\ HasKey(obo_records_dict, ExpectedValue(NewLine))

\* C17: an id line whose value is already a key raises no error, leaves the
\* keys as they are and puts a new record, holding the id alone, at the key; in
\* a returned table the record of a key that had several id lines holds the id
\* and what the lines after the last of them gave, and nothing else.
C17_LastWriteWins ==
    /\ [](Returned =>
            \A i \in 1..Len(obo_records_dict) :
                LET k == obo_records_dict[i].key
                IN  Cardinality(IdLinesOf(k)) > 1 =>
                      /\ DOMAIN RecordAt(i) = {TAG_ID} \cup TagsRead(k)
                      /\ RecordAt(i)[TAG_ID] = Str(k)
                      /\ \A t \in TagsRead(k) \ {TAG_ID} :
                            RecordAt(i)[t] =
                               IF t \in ONLY_ONE_ALLOWED_PER_STANZA
                               THEN Str(ValuesRead(k, t)[1])
                               ELSE List(ValuesRead(k, t)))
    /\ [][RereadsKey =>
            LET k == ExpectedValue(NewLine)
            IN  /\ err' = NoError
                /\ Keys(obo_records_dict') = Keys(obo_records_dict)
                /\ GetItem(obo_records_dict', k) \notin DOMAIN records
                /\ records'[GetItem(obo_records_dict', k)] = TAG_ID :> Str(k)
                /\ \A r \in DOMAIN records : records'[r] = records[r]]_vars

\* The record of A had a name; after a second id line for A the returned
\* record of A holds the id alone.
C17_Witness ==
    /\ Returned
    /\ lines = <<HdrTerm, TagLine(TAG_ID, <<"A">>),
                 TagLine(TAG_NAME, <<"x">>), TagLine(TAG_ID, <<"A">>)>>
    /\ Len(records) = 2
    /\ records[1] = (TAG_ID :> Str(<<"A">>) @@ TAG_NAME :> Str(<<"x">>))
    /\ RecordAt(1) = TAG_ID :> Str(<<"A">>)

-----------------------------------------------------------------------------
(* C18 *)

\* The value of the id line read last.
LastIdValue == ExpectedValue(lines[Max(IdLines)])

\* C18: whenever the lines read so far have all been accepted, and so in a
\* returned table, every key maps to a record whose id is the key, no two
\* keys map to the same record, and the current record, when there is one, is
\* the record stored under the value of the id line read last.
C18_KeysNameTheirRecords ==
    err = NoError =>
        /\ \A i \in 1..Len(obo_records_dict) :
              /\ obo_records_dict[i].ref \in DOMAIN records
              /\ TAG_ID \in DOMAIN RecordAt(i)
              /\ RecordAt(i)[TAG_ID] = Str(obo_records_dict[i].key)
        /\ \A i, j \in 1..Len(obo_records_dict) :
              obo_records_dict[i].ref = obo_records_dict[j].ref => i = j
        /\ current_record # NoRef =>
              /\ IdLines # {}
              /\ HasKey(obo_records_dict, LastIdValue)
              /\ current_record = GetItem(obo_records_dict, LastIdValue)
        /\ current_record = NoRef => Len(obo_records_dict) = 0

\* Two keys, and a later id line for the first of them: the current record is
\* the new record of A, and B keeps its own.
C18_Witness ==
    /\ pc = "parse"
    /\ err = NoError
    /\ lines = <<HdrTerm, TagLine(TAG_ID, <<"A">>),
                 TagLine(TAG_ID, <<"B">>), TagLine(TAG_ID, <<"A">>)>>
    /\ Keys(obo_records_dict) = <<(<<"A">>), (<<"B">>)>>
    /\ current_record = 3
    /\ GetItem(obo_records_dict, <<"A">>) = 3
    /\ GetItem(obo_records_dict, <<"B">>) = 2

-----------------------------------------------------------------------------
(* C19 *)

\* C19: once the table is returned, no call of print_stats or write_tsv, in
\* whatever number and order, changes its keys, their order or any record
\* (a column a record lacks is not added to it), and every emission of the
\* table writes the same text.
C19_ReadersOnlyRead ==
    /\ [][Returned =>
            /\ obo_records_dict' = obo_records_dict
            /\ records' = records
            /\ current_record' = current_record
            /\ lines' = lines]_vars
    /\ [](\A i, j \in DOMAIN emitted : emitted[i] = emitted[j])

\* A record without name, namespace and def has been counted and emitted
\* twice: it still holds id and is_a alone, and both emissions are the same
\* row.
C19_Witness ==
    /\ lines = <<HdrTerm, TagLine(TAG_ID, <<"A">>), TagLine(TAG_IS_A, <<"B">>)>>
    /\ stats # <<>>
    /\ emitted = << <<"A", "\t", "\t", "B", "\t", "\t", "\n">>,
                    <<"A", "\t", "\t", "B", "\t", "\t", "\n">> >>
    /\ DOMAIN RecordAt(1) = {TAG_ID, TAG_IS_A}

=============================================================================
